---- MODULE Spec2Model ----
(***************************************************************************)
(* Model of the s3zip pipeline (src/s3zip.go): S3Zip.Do wires gen, the     *)
(* download workers, merge, archive and upload.  Every channel is          *)
(* unbuffered, so a send and the matching receive are one joint step.      *)
(***************************************************************************)
EXTENDS Integers, Sequences, FiniteSets, Bags, TLC

\* ---------------------------------------------------------------- bounds
MaxRes == 2
MaxConc == 2

\* ---------------------------------------------------------------- inputs
\* The Resource values a caller may pass: two S3 objects, each with its own
\* FileName.  A list may name the same one several times.
Descriptors ==
    {[Key |-> "k1", FileName |-> "a"], [Key |-> "k2", FileName |-> "b"]}

\* Bytes the storage holds for an S3 object key.
ObjectContent(key) == IF key = "k1" THEN "x" ELSE "y"

\* Outcome of downloadOnDisk for one descriptor, as the environment decides:
\* "ok", "nofile" (os.CreateTemp fails), "dlfail" (the download fails).
Outcomes == {"ok", "nofile", "dlfail"}

\* New's concurrency when no option is given.
defaultConcurrency == 1

VARIABLES
    resources,      \* Do's argument: sequence of [Object, FileName]
    outcome,        \* outcome[i]: what the download of resources[i] does
    concurrency,    \* z.concurrency
    genIdx,         \* gen: index of the next resource to send on ch
    chClosed,       \* workerQueue has been closed
    wPc,            \* worker position: "range","download","send","done"
    wRes,           \* worker's current res
    outClosed,      \* worker's out channel has been closed
    fPc,            \* merge forwarder position: "range","send","done"
    fRes,           \* forwarder's current r
    wg,             \* sync.WaitGroup counter of merge
    mergedClosed,   \* merge's out channel has been closed
    doPc,           \* Do/archive position
    arcRes,         \* archive's current res
    defers,         \* archive's deferred os.Remove paths
    entries,        \* entries written to the zip writer
    zipCreated,     \* archive's temp zip file has been created
    zipExists,      \* archive's temp zip file exists on disk
    files,          \* per-resource temp files on disk: path -> content
    nextPath,       \* next fresh temp file name
    rmCount,        \* path -> number of successful os.Remove of it
    uploadCalls,    \* number of times z.upload was invoked
    dest,           \* destination object: <<"none">> or <<"zip", entries>>
    doErr,          \* value returned by Do: "nil", "zip: create temp",
                    \* "zip: add", "zip: close" or "upload"
    failed,         \* indices whose downloadOnDisk returned an error
    handed,         \* history: handed[k] = index of the k-th resource received from ch
    emitted,        \* history: bag of resources sent on worker outs
    received,       \* history: bag of resources archive received
    inflight,       \* history: indices other workers held when a worker failed
    entryIdx,       \* history: entryIdx[k] = index of the resource of entries[k]
    run,            \* number of Do calls made so far
    lastOpt,        \* history: c of the last WithConcurrency(c) applied (0: none)
    prevDest        \* dest left by the first Do call

vars == <<resources, outcome, concurrency, genIdx, chClosed, wPc, wRes,
          outClosed, fPc, fRes, wg, mergedClosed, doPc, arcRes, defers,
          entries, zipCreated, zipExists, files, nextPath, rmCount,
          uploadCalls, dest, doErr, failed, handed, emitted, received,
          inflight, entryIdx, run, lastOpt, prevDest>>

inputVars == <<resources, outcome>>
genVars == <<genIdx, chClosed>>
workerVars == <<wPc, wRes, outClosed>>
mergeVars == <<fPc, fRes, wg, mergedClosed>>
doVars == <<doPc, arcRes, defers, entries, zipCreated, zipExists,
            uploadCalls, dest, doErr>>
diskVars == <<files, nextPath, rmCount>>
histVars == <<failed, handed, emitted, received, inflight, entryIdx>>
runVars == <<run, lastOpt, prevDest>>

Workers == DOMAIN wPc
NoRes == [idx |-> 0, Key |-> "", FileName |-> "", fpath |-> 0]

\* Resource as it travels through the channels; fpath = 0 stands for "".
Resource(i) ==
    [idx |-> i, Key |-> resources[i].Key, FileName |-> resources[i].FileName,
     fpath |-> 0]

ResourceLists == UNION {[1..n -> Descriptors] : n \in 0..MaxRes}

\* Do up to the call of archive: gen, the workers and merge are started.
StartDo ==
    /\ genIdx' = 1
    /\ chClosed' = FALSE
    /\ wPc' = [w \in 1..concurrency' |-> "range"]
    /\ wRes' = [w \in 1..concurrency' |-> NoRes]
    /\ outClosed' = [w \in 1..concurrency' |-> FALSE]
    /\ fPc' = [w \in 1..concurrency' |-> "range"]
    /\ fRes' = [w \in 1..concurrency' |-> NoRes]
    /\ wg' = concurrency'
    /\ mergedClosed' = FALSE
    /\ doPc' = "archive"
    /\ arcRes' = NoRes
    /\ defers' = <<>>
    /\ entries' = <<>>
    /\ zipCreated' = FALSE
    /\ zipExists' = FALSE
    /\ uploadCalls' = 0
    /\ dest' = <<"none">>
    /\ doErr' = "running"
    /\ failed' = {}
    /\ handed' = <<>>
    /\ emitted' = EmptyBag
    /\ received' = EmptyBag
    /\ inflight' = {}
    /\ entryIdx' = <<>>

\* An S3Zip built by New without options, Do not yet called; the caller's
\* resources and the storage's answer for each of them are fixed.
Init ==
    /\ resources \in ResourceLists
    /\ outcome \in [1..Len(resources) -> Outcomes]
    /\ concurrency = defaultConcurrency
    /\ lastOpt = 0
    /\ genIdx = 1
    /\ chClosed = FALSE
    /\ wPc = <<>>
    /\ wRes = <<>>
    /\ outClosed = <<>>
    /\ fPc = <<>>
    /\ fRes = <<>>
    /\ wg = 0
    /\ mergedClosed = FALSE
    /\ doPc = "idle"
    /\ arcRes = NoRes
    /\ defers = <<>>
    /\ entries = <<>>
    /\ zipCreated = FALSE
    /\ zipExists = FALSE
    /\ uploadCalls = 0
    /\ dest = <<"none">>
    /\ doErr = "running"
    /\ failed = {}
    /\ handed = <<>>
    /\ emitted = EmptyBag
    /\ received = EmptyBag
    /\ inflight = {}
    /\ entryIdx = <<>>
    /\ files = <<>>
    /\ nextPath = 1
    /\ rmCount = <<>>
    /\ run = 0
    /\ prevDest = <<"none">>

\* WithConcurrency(c) that always keeps the larger value.
WithConcurrencyKeepsLarger(c) ==
    /\ doPc = "idle"
    /\ concurrency' = IF c > concurrency THEN c ELSE concurrency
    /\ lastOpt' = c
    /\ UNCHANGED <<inputVars, genVars, workerVars, mergeVars, doVars,
                   diskVars, histVars, run, prevDest>>

\* WithConcurrency(c) applied to the S3Zip, by New for one of its opts or by
\* the caller afterwards: z.concurrency = c.
WithConcurrency(c) ==
    /\ doPc = "idle"
    /\ concurrency' = c
    /\ lastOpt' = c
    /\ UNCHANGED <<inputVars, genVars, workerVars, mergeVars, doVars,
                   diskVars, histVars, run, prevDest>>

\* The caller invokes Do.
Do ==
    /\ run = 0
    /\ doPc = "idle"
    /\ run' = 1
    /\ UNCHANGED <<inputVars, concurrency, diskVars, lastOpt, prevDest>>
    /\ StartDo

\* ---------------------------------------------------------------- disk
CreateFile(fs, p) == (p :> "") @@ fs
WriteFile(fs, p, c) == [fs EXCEPT ![p] = c]
RemoveFiles(fs, ps) == [q \in DOMAIN fs \ ps |-> fs[q]]
\* os.Remove counts only when the file is there.
CountRemoved(rc, fs, ps) ==
    [q \in DOMAIN rc \cup (ps \cap DOMAIN fs) |->
        IF q \in ps \cap DOMAIN fs
        THEN (IF q \in DOMAIN rc THEN rc[q] + 1 ELSE 1)
        ELSE rc[q]]
Range(s) == {s[k] : k \in DOMAIN s}

\* ---------------------------------------------------------------- gen
\* gen sending without waiting for a worker to receive: the resource is
\* put on worker w whatever w is doing.
genSendWithoutRendezvous(w) ==
    /\ genIdx <= Len(resources)
    /\ ~chClosed
    /\ wPc[w] \in {"range", "download"}
    /\ wRes' = [wRes EXCEPT ![w] = Resource(genIdx)]
    /\ wPc' = [wPc EXCEPT ![w] = "download"]
    /\ handed' = Append(handed, genIdx)
    /\ genIdx' = genIdx + 1
    /\ UNCHANGED <<chClosed, outClosed, failed, emitted, received, inflight,
                   entryIdx>>
    /\ UNCHANGED <<inputVars, concurrency, mergeVars, doVars, diskVars, runVars>>

\* gen: ch <- res, received by worker w in `for res := range queue`.
genSend(w) ==
    /\ genIdx <= Len(resources)
    /\ ~chClosed
    /\ wPc[w] = "range"
    /\ wRes' = [wRes EXCEPT ![w] = Resource(genIdx)]
    /\ wPc' = [wPc EXCEPT ![w] = "download"]
    /\ handed' = Append(handed, genIdx)
    /\ genIdx' = genIdx + 1
    /\ UNCHANGED <<chClosed, outClosed, failed, emitted, received, inflight,
                   entryIdx>>
    /\ UNCHANGED <<inputVars, concurrency, mergeVars, doVars, diskVars, runVars>>

\* gen with the close one iteration early: the last resource is never sent.
genCloseBeforeLastSend ==
    /\ doPc # "idle"
    /\ genIdx >= Len(resources)
    /\ ~chClosed
    /\ chClosed' = TRUE
    /\ UNCHANGED <<genIdx, inputVars, concurrency, workerVars, mergeVars,
                   doVars, diskVars, histVars, runVars>>

\* gen returning before its close is deferred when there is nothing to send.
genCloseUnlessEmpty ==
    /\ doPc # "idle"
    /\ genIdx > Len(resources)
    /\ Len(resources) > 0
    /\ ~chClosed
    /\ chClosed' = TRUE
    /\ UNCHANGED <<genIdx, inputVars, concurrency, workerVars, mergeVars,
                   doVars, diskVars, histVars, runVars>>

\* gen: defer close(ch) once the loop over resources is over.
genClose ==
    /\ doPc # "idle"
    /\ genIdx > Len(resources)
    /\ ~chClosed
    /\ chClosed' = TRUE
    /\ UNCHANGED <<genIdx, inputVars, concurrency, workerVars, mergeVars,
                   doVars, diskVars, histVars, runVars>>

\* ---------------------------------------------------------------- workers
\* runDownloadWorker: the range over queue ends, defer close(out).
workerQueueClosed(w) ==
    /\ wPc[w] = "range"
    /\ chClosed
    /\ wPc' = [wPc EXCEPT ![w] = "done"]
    /\ outClosed' = [outClosed EXCEPT ![w] = TRUE]
    /\ UNCHANGED <<wRes, inputVars, concurrency, genVars, mergeVars,
                   doVars, diskVars, histVars, runVars>>

\* Descriptors the workers other than w have taken from the queue and not
\* yet sent on.
HeldByOthers(w) ==
    {wRes[v].idx : v \in {u \in Workers \ {w} : wPc[u] \in {"download", "send"}}}

\* runDownloadWorker sending res although downloadOnDisk returned an error
\* (no return after the failure): the resource goes out with an empty fpath.
downloadOnDiskSendOnError(w) ==
    /\ wPc[w] = "download"
    /\ IF outcome[wRes[w].idx] = "nofile"
       THEN /\ wPc' = [wPc EXCEPT ![w] = "send"]
            /\ failed' = failed \cup {wRes[w].idx}
            /\ inflight' = inflight \cup HeldByOthers(w)
            /\ UNCHANGED <<wRes, files, nextPath>>
       ELSE IF outcome[wRes[w].idx] = "dlfail"
       THEN /\ files' = CreateFile(files, nextPath)
            /\ nextPath' = nextPath + 1
            /\ wPc' = [wPc EXCEPT ![w] = "send"]
            /\ failed' = failed \cup {wRes[w].idx}
            /\ inflight' = inflight \cup HeldByOthers(w)
            /\ UNCHANGED wRes
       ELSE /\ files' = WriteFile(CreateFile(files, nextPath), nextPath,
                                  ObjectContent(wRes[w].Key))
            /\ nextPath' = nextPath + 1
            /\ wRes' = [wRes EXCEPT ![w].fpath = nextPath]
            /\ wPc' = [wPc EXCEPT ![w] = "send"]
            /\ UNCHANGED <<failed, inflight>>
    /\ UNCHANGED <<outClosed, rmCount, handed, emitted, received, entryIdx>>
    /\ UNCHANGED <<inputVars, concurrency, genVars, mergeVars, doVars, runVars>>

\* downloadOnDisk not checking the error of z.download: the file it created
\* stays empty, res.fpath is set and the resource is sent on.
downloadOnDiskIgnoreDownloadError(w) ==
    /\ wPc[w] = "download"
    /\ IF outcome[wRes[w].idx] = "nofile"
       THEN /\ wPc' = [wPc EXCEPT ![w] = "done"]
            /\ outClosed' = [outClosed EXCEPT ![w] = TRUE]
            /\ failed' = failed \cup {wRes[w].idx}
            /\ inflight' = inflight \cup HeldByOthers(w)
            /\ UNCHANGED <<wRes, files, nextPath>>
       ELSE IF outcome[wRes[w].idx] = "dlfail"
       THEN /\ files' = CreateFile(files, nextPath)
            /\ nextPath' = nextPath + 1
            /\ wRes' = [wRes EXCEPT ![w].fpath = nextPath]
            /\ wPc' = [wPc EXCEPT ![w] = "send"]
            /\ UNCHANGED <<outClosed, failed, inflight>>
       ELSE /\ files' = WriteFile(CreateFile(files, nextPath), nextPath,
                                  ObjectContent(wRes[w].Key))
            /\ nextPath' = nextPath + 1
            /\ wRes' = [wRes EXCEPT ![w].fpath = nextPath]
            /\ wPc' = [wPc EXCEPT ![w] = "send"]
            /\ UNCHANGED <<outClosed, failed, inflight>>
    /\ UNCHANGED <<rmCount, handed, emitted, received, entryIdx>>
    /\ UNCHANGED <<inputVars, concurrency, genVars, mergeVars, doVars, runVars>>

\* The worker going on to the next resource after a failed downloadOnDisk
\* (continue in place of return).
downloadOnDiskContinueOnError(w) ==
    /\ wPc[w] = "download"
    /\ IF outcome[wRes[w].idx] = "nofile"
       THEN /\ wPc' = [wPc EXCEPT ![w] = "range"]
            /\ failed' = failed \cup {wRes[w].idx}
            /\ inflight' = inflight \cup HeldByOthers(w)
            /\ UNCHANGED <<wRes, files, nextPath>>
       ELSE IF outcome[wRes[w].idx] = "dlfail"
       THEN /\ files' = CreateFile(files, nextPath)
            /\ nextPath' = nextPath + 1
            /\ wPc' = [wPc EXCEPT ![w] = "range"]
            /\ failed' = failed \cup {wRes[w].idx}
            /\ inflight' = inflight \cup HeldByOthers(w)
            /\ UNCHANGED wRes
       ELSE /\ files' = WriteFile(CreateFile(files, nextPath), nextPath,
                                  ObjectContent(wRes[w].Key))
            /\ nextPath' = nextPath + 1
            /\ wRes' = [wRes EXCEPT ![w].fpath = nextPath]
            /\ wPc' = [wPc EXCEPT ![w] = "send"]
            /\ UNCHANGED <<failed, inflight>>
    /\ UNCHANGED <<outClosed, rmCount, handed, emitted, received, entryIdx>>
    /\ UNCHANGED <<inputVars, concurrency, genVars, mergeVars, doVars, runVars>>

\* downloadOnDisk, called by the worker on the res it took: os.CreateTemp,
\* then z.download into the file, then res.fpath = f.Name().  On either
\* error the worker returns and its deferred close(out) runs; a file that
\* was created stays on disk.
downloadOnDisk(w) ==
    /\ wPc[w] = "download"
    /\ IF outcome[wRes[w].idx] = "nofile"
       THEN /\ wPc' = [wPc EXCEPT ![w] = "done"]
            /\ outClosed' = [outClosed EXCEPT ![w] = TRUE]
            /\ failed' = failed \cup {wRes[w].idx}
            /\ inflight' = inflight \cup HeldByOthers(w)
            /\ UNCHANGED <<wRes, files, nextPath>>
       ELSE IF outcome[wRes[w].idx] = "dlfail"
       THEN /\ files' = CreateFile(files, nextPath)
            /\ nextPath' = nextPath + 1
            /\ wPc' = [wPc EXCEPT ![w] = "done"]
            /\ outClosed' = [outClosed EXCEPT ![w] = TRUE]
            /\ failed' = failed \cup {wRes[w].idx}
            /\ inflight' = inflight \cup HeldByOthers(w)
            /\ UNCHANGED wRes
       ELSE /\ files' = WriteFile(CreateFile(files, nextPath), nextPath,
                                  ObjectContent(wRes[w].Key))
            /\ nextPath' = nextPath + 1
            /\ wRes' = [wRes EXCEPT ![w].fpath = nextPath]
            /\ wPc' = [wPc EXCEPT ![w] = "send"]
            /\ UNCHANGED <<outClosed, failed, inflight>>
    /\ UNCHANGED <<rmCount, handed, emitted, received, entryIdx>>
    /\ UNCHANGED <<inputVars, concurrency, genVars, mergeVars, doVars, runVars>>

\* runDownloadWorker: out <- res, received by the forwarder of merge.
workerSend(w) ==
    /\ wPc[w] = "send"
    /\ fPc[w] = "range"
    /\ ~outClosed[w]
    /\ fRes' = [fRes EXCEPT ![w] = wRes[w]]
    /\ fPc' = [fPc EXCEPT ![w] = "send"]
    /\ wPc' = [wPc EXCEPT ![w] = "range"]
    /\ emitted' = emitted (+) SetToBag({wRes[w]})
    /\ UNCHANGED <<wRes, outClosed, wg, mergedClosed, failed, handed,
                   received, inflight, entryIdx>>
    /\ UNCHANGED <<inputVars, concurrency, genVars, doVars, diskVars, runVars>>

\* ---------------------------------------------------------------- merge
\* merge forwarder leaving without its wg.Done().
mergeForwarderDoneNoWgDone(w) ==
    /\ fPc[w] = "range"
    /\ outClosed[w]
    /\ fPc' = [fPc EXCEPT ![w] = "done"]
    /\ UNCHANGED <<fRes, wg, mergedClosed, inputVars, concurrency, genVars,
                   workerVars, doVars, diskVars, histVars, runVars>>

\* merge forwarder: range over c ends, wg.Done().
mergeForwarderDone(w) ==
    /\ fPc[w] = "range"
    /\ outClosed[w]
    /\ fPc' = [fPc EXCEPT ![w] = "done"]
    /\ wg' = wg - 1
    /\ UNCHANGED <<fRes, mergedClosed, inputVars, concurrency, genVars,
                   workerVars, doVars, diskVars, histVars, runVars>>

\* merge closer without its wg.Wait().
mergeCloseNoWait ==
    /\ doPc # "idle"
    /\ ~mergedClosed
    /\ mergedClosed' = TRUE
    /\ UNCHANGED <<fPc, fRes, wg, inputVars, concurrency, genVars,
                   workerVars, doVars, diskVars, histVars, runVars>>

\* merge closer: wg.Wait() returns, close(out).
mergeClose ==
    /\ doPc # "idle"
    /\ wg = 0
    /\ ~mergedClosed
    /\ mergedClosed' = TRUE
    /\ UNCHANGED <<fPc, fRes, wg, inputVars, concurrency, genVars,
                   workerVars, doVars, diskVars, histVars, runVars>>


\* ---------------------------------------------------------------- archive
\* archive deferring os.Remove only after addToZip succeeded: the file of
\* the resource being added is not removed.
RunDefersButLast ==
    LET done == {defers[k] : k \in 1..Len(entries)}
    IN  /\ files' = RemoveFiles(files, done)
        /\ rmCount' = CountRemoved(rmCount, files, done)
        /\ defers' = <<>>

\* Do returns err: every deferred os.Remove of archive has run by then.
RunDefers ==
    /\ files' = RemoveFiles(files, Range(defers))
    /\ rmCount' = CountRemoved(rmCount, files, Range(defers))
    /\ defers' = <<>>

\* archive: os.CreateTemp of the zip file; on error Do returns "failed to zip".
archiveCreateTemp ==
    /\ doPc = "archive"
    /\ \E ok \in BOOLEAN :
         IF ok
         THEN /\ zipCreated' = TRUE
              /\ zipExists' = TRUE
              /\ doPc' = "range"
              /\ UNCHANGED doErr
         ELSE /\ doPc' = "done"
              /\ doErr' = "zip: create temp"
              /\ UNCHANGED <<zipCreated, zipExists>>
    /\ UNCHANGED <<arcRes, defers, entries, uploadCalls, dest>>
    /\ UNCHANGED <<inputVars, concurrency, genVars, workerVars, mergeVars,
                   diskVars, histVars, runVars>>

\* archive: `for res := range queue` receives what forwarder w sends on
\* merge's out; an empty fpath is skipped, else its removal is deferred.
archiveRecv(w) ==
    /\ doPc = "range"
    /\ fPc[w] = "send"
    /\ ~mergedClosed
    /\ fPc' = [fPc EXCEPT ![w] = "range"]
    /\ received' = received (+) SetToBag({fRes[w]})
    /\ IF fRes[w].fpath = 0
       THEN UNCHANGED <<doPc, arcRes, defers>>
       ELSE /\ arcRes' = fRes[w]
            /\ defers' = Append(defers, fRes[w].fpath)
            /\ doPc' = "add"
    /\ UNCHANGED <<fRes, wg, mergedClosed, entries, zipCreated, zipExists,
                   uploadCalls, dest, doErr, failed, handed, emitted,
                   inflight, entryIdx>>
    /\ UNCHANGED <<inputVars, concurrency, genVars, workerVars, diskVars, runVars>>

\* addToZip without its io.Copy: the entry is created and left empty.
ZipEntryNoCopy(res, fs) == [name |-> res.FileName, content |-> ""]

\* addToZip's result on success: an entry named res.FileName holding the
\* bytes of the file at res.fpath.
ZipEntry(res, fs) == [name |-> res.FileName, content |-> fs[res.fpath]]

\* addToZip: zw.Create, os.Open, io.Copy; any error makes archive return it,
\* and Do return "failed to zip".
addToZip ==
    /\ doPc = "add"
    /\ \E ok \in BOOLEAN :
         IF ok /\ arcRes.fpath \in DOMAIN files
         THEN /\ entries' = Append(entries, ZipEntry(arcRes, files))
              /\ entryIdx' = Append(entryIdx, arcRes.idx)
              /\ doPc' = "range"
              /\ UNCHANGED <<defers, doErr, files, rmCount>>
         ELSE /\ RunDefers
              /\ doPc' = "done"
              /\ doErr' = "zip: add"
              /\ UNCHANGED <<entries, entryIdx>>
    /\ UNCHANGED <<arcRes, zipCreated, zipExists, uploadCalls, dest, nextPath>>
    /\ UNCHANGED <<failed, handed, emitted, received, inflight>>
    /\ UNCHANGED <<inputVars, concurrency, genVars, workerVars, mergeVars,
                   runVars>>

\* archive: the range over queue ends, zw.Close(); on error Do returns
\* "failed to zip", else archive returns zf.Name().
archiveClose ==
    /\ doPc = "range"
    /\ mergedClosed
    /\ RunDefers
    /\ \E ok \in BOOLEAN :
         IF ok
         THEN /\ doPc' = "upload"
              /\ UNCHANGED doErr
         ELSE /\ doPc' = "done"
              /\ doErr' = "zip: close"
    /\ UNCHANGED <<arcRes, entries, zipCreated, zipExists, uploadCalls, dest,
                   nextPath>>
    /\ UNCHANGED <<inputVars, concurrency, genVars, workerVars, mergeVars,
                   histVars, runVars>>

\* ---------------------------------------------------------------- upload
\* Do: z.upload of the zip; then Do returns and its deferred
\* os.Remove(zipFpath) runs.
upload ==
    /\ doPc = "upload"
    /\ uploadCalls' = uploadCalls + 1
    /\ \E ok \in BOOLEAN :
         IF ok /\ zipExists
         THEN /\ dest' = <<"zip", entries>>
              /\ doErr' = "nil"
         ELSE /\ doErr' = "upload"
              /\ UNCHANGED dest
    /\ zipExists' = FALSE
    /\ doPc' = "done"
    /\ UNCHANGED <<arcRes, defers, entries, zipCreated>>
    /\ UNCHANGED <<inputVars, concurrency, genVars, workerVars, mergeVars,
                   diskVars, histVars, runVars>>

\* ---------------------------------------------------------------- system
Next ==
    \/ \E c \in 1..MaxConc : WithConcurrency(c)
    \/ Do
    \/ \E w \in Workers : genSend(w)
    \/ genClose
    \/ \E w \in Workers : workerQueueClosed(w)
    \/ \E w \in Workers : downloadOnDisk(w)
    \/ \E w \in Workers : workerSend(w)
    \/ \E w \in Workers : mergeForwarderDone(w)
    \/ mergeClose
    \/ archiveCreateTemp
    \/ \E w \in Workers : archiveRecv(w)
    \/ addToZip
    \/ archiveClose
    \/ upload

Spec == Init /\ [][Next]_vars


\* ---------------------------------------------------------------- two runs
\* The caller invokes Do again with the same destination and resources, on
\* an S3Zip of concurrency c, once nothing of the first call moves any more.
\* The storage answers each download as it did in the first call.
doAgain(c) ==
    /\ run = 1
    /\ doPc = "done"
    /\ ~ENABLED Next
    /\ run' = 2
    /\ prevDest' = dest
    /\ concurrency' = c
    /\ lastOpt' = c
    /\ StartDo
    /\ UNCHANGED <<inputVars, diskVars>>

NextTwoRuns ==
    \/ Next
    \/ \E c \in 1..MaxConc : doAgain(c)

TwoRunSpec == Init /\ [][NextTwoRuns]_vars


\* Some runnable goroutine is eventually scheduled.
FairSpec == Spec /\ WF_vars(Next)

\* ---------------------------------------------------------------- claims
DoReturned == doPc = "done"

\* A goroutine that can never take another step.
ForwarderStuck(w) == fPc[w] = "send" /\ DoReturned
WorkerStuck(w) == wPc[w] = "send" /\ ForwarderStuck(w)
GenStuck ==
    /\ genIdx <= Len(resources)
    /\ \A w \in Workers : wPc[w] = "done" \/ WorkerStuck(w)
CloserStuck == ~mergedClosed /\ \E w \in Workers : ForwarderStuck(w)

AllGoroutinesDone ==
    /\ chClosed
    /\ mergedClosed
    /\ \A w \in Workers : wPc[w] = "done" /\ fPc[w] = "done"

\* C1: once the download of some resource has failed, the upload is never
\* invoked in that run, and Do returns an error.
C1_DownloadFailureFailsDo ==
    failed # {} =>
        /\ uploadCalls = 0
        /\ DoReturned => doErr # "nil"

\* C2: when Do has returned, no per-resource temp file created during the
\* run exists any more, and each was removed exactly once.
C2_NoDownloadFileLeftAfterDo ==
    DoReturned =>
        /\ DOMAIN files = {}
        /\ \A p \in 1..(nextPath - 1) : p \in DOMAIN rmCount /\ rmCount[p] = 1

\* C3: when Do has returned, the archive's temp zip file, if it was
\* created, is gone.
C3_ZipFileRemovedAfterDo ==
    (DoReturned /\ zipCreated) => ~zipExists

\* C4: in a run where a download failed, after Do has returned no goroutine
\* (gen, worker, merge forwarder, merge closer) is blocked for ever on a
\* channel operation.
C4_NoBlockedGoroutineAfterRetrievalFailure ==
    (DoReturned /\ failed # {}) =>
        /\ ~GenStuck
        /\ ~CloserStuck
        /\ \A w \in Workers : ~WorkerStuck(w) /\ ~ForwarderStuck(w)

\* C5: after archive has aborted on an addToZip failure, no merge forwarder
\* and no download worker is blocked for ever on a send nobody receives.
C5_MergeNotBlockedAfterArchiveAbort ==
    doErr = "zip: add" =>
        \A w \in Workers : ~ForwarderStuck(w) /\ ~WorkerStuck(w)


DistinctNames ==
    \A i, j \in 1..Len(resources) :
        resources[i].FileName = resources[j].FileName => i = j

AllDownloadsSucceed == \A i \in 1..Len(resources) : outcome[i] = "ok"

\* The entry the archive must hold for resources[i].
ExpectedEntry(i) ==
    [name |-> resources[i].FileName, content |-> ObjectContent(resources[i].Key)]

\* C6: with pairwise distinct archive paths, when every download, archive
\* write and the upload succeeded, the uploaded archive holds exactly one
\* entry per descriptor, with that descriptor's name and its object's bytes.
C6_OneEntryPerDescriptor ==
    (DoReturned /\ doErr = "nil" /\ AllDownloadsSucceed /\ DistinctNames) =>
        /\ dest[1] = "zip"
        /\ Len(dest[2]) = Len(resources)
        /\ \A i \in 1..Len(resources) :
             \E k \in 1..Len(dest[2]) : dest[2][k] = ExpectedEntry(i)

\* Witness of C6: two descriptors downloaded by two workers and archived in
\* the order opposite to the input order.
C6_Witness ==
    /\ DoReturned /\ doErr = "nil" /\ AllDownloadsSucceed /\ DistinctNames
    /\ concurrency = 2
    /\ Len(resources) = 2
    /\ dest[1] = "zip"
    /\ Len(dest[2]) = 2
    /\ dest[2][1].name = resources[2].FileName

\* C7: two Do calls on the same resources with the same download outcomes
\* that both produce an archive produce the same set of entries, whatever
\* the concurrency of each call.
C7_EntrySetDeterminedByInputs ==
    (run = 2 /\ DoReturned /\ dest[1] = "zip" /\ prevDest[1] = "zip") =>
        Range(dest[2]) = Range(prevDest[2])

\* C8: the k-th resource received from gen's channel is the k-th of the
\* input list (none twice, none skipped, in input order), no two workers
\* hold the same one, each worker holds the value gen was given, and the
\* channel is closed only after the last one was handed out.
C8_TaskSourceExactlyOnceInOrder ==
    /\ \A k \in 1..Len(handed) : handed[k] = k
    /\ Len(handed) <= Len(resources)
    /\ chClosed => Len(handed) = Len(resources)
    /\ \A w \in Workers :
         wPc[w] \in {"download", "send"} =>
            /\ wRes[w].idx \in Range(handed)
            /\ wRes[w].Key = resources[wRes[w].idx].Key
            /\ wRes[w].FileName = resources[wRes[w].idx].FileName
            /\ \A v \in Workers \ {w} :
                 wPc[v] \in {"download", "send"} => wRes[v].idx # wRes[w].idx

\* Witness of C8: two workers each hold one of two descriptors and the
\* channel is closed.
C8_Witness ==
    /\ chClosed
    /\ Len(handed) = 2
    /\ concurrency = 2
    /\ wPc[1] = "download" /\ wPc[2] = "download"
    /\ wRes[1].idx = 2 /\ wRes[2].idx = 1

\* Items a merge forwarder has received and not yet passed on.
InMerge ==
    LET holding == {w \in Workers : fPc[w] = "send"}
    IN  BagUnion({SetToBag({fRes[w]}) : w \in holding})

\* archive has seen the merged channel closed.
ArchiveDrained ==
    doPc = "upload" \/ doErr \in {"nil", "upload", "zip: close"}

\* C9: what archive has received from the merged channel plus what the
\* forwarders still hold is exactly what the workers have emitted; after
\* archive has drained the channel it has received exactly what was
\* emitted; and the merged channel is closed only after every worker's
\* output channel is closed.
C9_MergeNoDropNoDuplicate ==
    /\ emitted = received (+) InMerge
    /\ ArchiveDrained => received = emitted
    /\ mergedClosed => \A w \in Workers : outClosed[w]

\* Witness of C9: with two workers, archive drained a merged channel that
\* carried two different items.
C9_Witness ==
    /\ ArchiveDrained
    /\ concurrency = 2
    /\ BagCardinality(received) = 2
    /\ Cardinality(BagToSet(received)) = 2
    /\ mergedClosed

\* C10 as stated: with an empty resource list, whenever Do has returned it
\* returned no error, the upload was invoked once, the destination holds an
\* archive with no entry and every goroutine has terminated.
C10_EmptyListAlwaysUploads ==
    (Len(resources) = 0 /\ DoReturned) =>
        /\ doErr = "nil"
        /\ uploadCalls = 1
        /\ dest = <<"zip", <<>>>>
        /\ AllGoroutinesDone

\* C10 amended: with an empty resource list Do eventually returns; it
\* returns no error unless creating the zip file, closing the zip writer or
\* the upload failed, and never touches a download file; when it returns
\* no error the upload was invoked exactly once, the destination holds an
\* archive with no entry and every goroutine has terminated.
C10_EmptyListUploadsUnlessIOFails ==
    /\ (run = 1 /\ Len(resources) = 0) ~> DoReturned
    /\ [](Len(resources) = 0 =>
            /\ uploadCalls <= 1
            /\ nextPath = 1
            /\ DoReturned =>
                 doErr \in {"nil", "zip: create temp", "zip: close", "upload"}
            /\ (DoReturned /\ doErr = "nil") =>
                 /\ uploadCalls = 1
                 /\ dest = <<"zip", <<>>>>
                 /\ AllGoroutinesDone)

\* Witness of C10: Do returned nil for an empty list with two workers.
C10_Witness ==
    /\ Len(resources) = 0
    /\ concurrency = 2
    /\ DoReturned
    /\ doErr = "nil"
    /\ uploadCalls = 1


\* C11: New without options gives concurrency 1, and after WithConcurrency
\* has been applied any number of times the concurrency is the value of the
\* last application, whatever it was before.
C11_ConcurrencyIsLastOptionOrDefault ==
    /\ lastOpt = 0 => concurrency = 1
    /\ lastOpt # 0 => concurrency = lastOpt

\* Witness of C11: WithConcurrency(2) was applied to the S3Zip that New
\* built with concurrency 1, and Do runs with it.
C11_Witness ==
    /\ lastOpt = 2
    /\ concurrency = 2
    /\ doPc # "idle"


\* C12: once a download has failed or addToZip has failed, no worker takes
\* a further descriptor from gen's channel.
C12_NoDescriptorTakenAfterFailure ==
    [][(failed # {} \/ doErr = "zip: add") => handed' = handed]_vars

\* archive has received from the merged channel the resource of index i.
ItemReceived(i) == \E r \in BagToSet(received) : r.idx = i

\* archive returned before the merged channel was closed.
ArchiveAborted == doErr \in {"zip: create temp", "zip: add"}

\* What C13 says of the worker whose download failed: it has emitted
\* nothing for the failed descriptor, has closed its out channel and is at
\* its end.
FailedWorkerStopped ==
    \A i \in failed :
        /\ \A r \in BagToSet(emitted) : r.idx # i
        /\ \E w \in Workers :
             wRes[w].idx = i /\ wPc[w] = "done" /\ outClosed[w]

\* A worker at its end takes nothing more.
DoneWorkerStaysDone ==
    \A w \in Workers : wPc[w] = "done" => wPc'[w] = "done"

ReceivedFilesRemoved ==
    \A r \in BagToSet(received) :
        /\ r.fpath \notin DOMAIN files
        /\ r.fpath \in DOMAIN rmCount
        /\ rmCount[r.fpath] = 1

\* C14: when addToZip has failed, archive has returned and Do has returned
\* an error without invoking the upload, the temp file of every resource
\* archive had received, the failing one included, is removed, and archive
\* receives nothing more from the merged channel.
C14_AddToZipFailureAbortsArchive ==
    /\ [](doErr = "zip: add" =>
            /\ DoReturned
            /\ uploadCalls = 0
            /\ dest = <<"none">>
            /\ ReceivedFilesRemoved)
    /\ [][doErr = "zip: add" => received' = received]_vars
    /\ [][(doPc = "add" /\ doPc' = "done") =>
            (doErr' = "zip: add" /\ received' = received)]_vars

\* Witness of C14: addToZip failed on the second resource archive received,
\* while it held the deferred removal of the first.
C14_Witness ==
    /\ doErr = "zip: add"
    /\ BagCardinality(received) = 2
    /\ Len(entries) = 1


\* Every worker has left its loop and closed its out, every forwarder has
\* left too, and the merged channel is closed: no download is in flight.
DownloadsOver ==
    /\ mergedClosed
    /\ \A w \in Workers : wPc[w] = "done" /\ outClosed[w] /\ fPc[w] = "done"

\* C15: the upload is invoked at most once per run, only after archive has
\* returned without error, and from the moment it is about to start the
\* merged channel is closed and every worker and forwarder has finished.
C15_UploadOnceAfterArchiveAndDownloads ==
    /\ uploadCalls <= 1
    /\ (doPc = "upload" \/ uploadCalls = 1) =>
          /\ DownloadsOver
          /\ doErr \in {"running", "nil", "upload"}
          /\ zipCreated
          /\ defers = <<>>
    /\ doPc = "upload" => (uploadCalls = 0 /\ doErr = "running")
    /\ uploadCalls = 1 => DoReturned

\* Witness of C15: the upload of an archive of two resources downloaded by
\* two workers has been invoked.
C15_Witness ==
    /\ uploadCalls = 1
    /\ concurrency = 2
    /\ BagCardinality(received) = 2
    /\ Len(entries) = 2

\* C16: when every download succeeds, Do eventually returns; it returns an
\* error only if a step of archive or the upload failed, and when it
\* returns none the destination holds the archive of all the resources and
\* gen, the workers, the forwarders and the closer have terminated.
C16_SuccessPathTerminates ==
    /\ (run = 1 /\ AllDownloadsSucceed) ~> DoReturned
    /\ []((AllDownloadsSucceed /\ DoReturned /\ doErr = "nil") =>
            /\ dest = <<"zip", entries>>
            /\ Len(entries) = Len(resources)
            /\ AllGoroutinesDone)
    /\ []((AllDownloadsSucceed /\ DoReturned) =>
            doErr \in {"nil", "zip: create temp", "zip: add", "zip: close",
                       "upload"})

\* Witness of C16: Do returned nil for two resources and two workers, all
\* goroutines gone.
C16_Witness ==
    /\ AllDownloadsSucceed
    /\ DoReturned
    /\ doErr = "nil"
    /\ Len(resources) = 2
    /\ concurrency = 2
    /\ AllGoroutinesDone


\* Descriptors handed out by gen that archive has not received.
Outstanding == Len(handed) - BagCardinality(received)

HeldByWorkers == Cardinality({w \in Workers : wPc[w] \in {"download", "send"}})
HeldByForwarders == Cardinality({w \in Workers : fPc[w] = "send"})
Downloading == Cardinality({w \in Workers : wPc[w] = "download"})

BeingAdded == IF doPc = "add" THEN 1 ELSE 0
AbortedOnItem == IF doErr = "zip: add" THEN 1 ELSE 0

\* C18: archive never silently skips an item of the merged stream: every
\* item it received has become an entry, is inside addToZip, or is the one
\* whose addToZip error made the run abort; and no item with an empty
\* transient location ever reaches archive, so none is dropped.
C18_ArchiveSkipsNothing ==
    /\ \A r \in BagToSet(received) : r.fpath # 0
    /\ BagCardinality(received) = Len(entries) + BeingAdded + AbortedOnItem

\* A download failed upstream and archive went on to a successful archive.
C18_Witness ==
    /\ failed # {}
    /\ BagCardinality(received) = 1
    /\ Len(entries) = 1
    /\ doPc = "done"
    /\ doErr = "nil"

\* C19: every archive entry is the entry of a descriptor of the input list
\* that a worker took and whose download succeeded; no occurrence of a
\* descriptor has two entries; no entry belongs to a descriptor whose
\* download failed or was never started.
C19_EntriesOnlyForDownloaded ==
    /\ Len(entryIdx) = Len(entries)
    /\ \A k \in 1..Len(entryIdx) :
         /\ entryIdx[k] \in 1..Len(resources)
         /\ entryIdx[k] \in Range(handed)
         /\ outcome[entryIdx[k]] = "ok"
         /\ entryIdx[k] \notin failed
         /\ entries[k] = ExpectedEntry(entryIdx[k])
    /\ \A k1, k2 \in 1..Len(entryIdx) :
         entryIdx[k1] = entryIdx[k2] => k1 = k2

\* One download failed after its file was created, the other descriptor
\* has its entry, and the run ended.
C19_Witness ==
    /\ Len(resources) = 2
    /\ \E i \in 1..2 : outcome[i] = "dlfail" /\ i \in failed
    /\ Len(entries) = 1
    /\ DoReturned

\* A closed channel has no sender left: gen closed ch after its last send,
\* worker w closed its out as it returned, and merge closed its out after
\* every forwarder had said wg.Done().
ClosedChannelsHaveNoSender ==
    /\ chClosed => genIdx > Len(resources)
    /\ \A w \in Workers : outClosed[w] => wPc[w] = "done"
    /\ mergedClosed => wg = 0 /\ \A w \in Workers : fPc[w] = "done"

\* A channel is closed in the last step of the goroutine that owns it, and
\* neither that goroutine nor the channel changes afterwards.
ClosedByOwnerOnce ==
    /\ chClosed => chClosed' /\ genIdx' = genIdx
    /\ mergedClosed => mergedClosed' /\ fPc' = fPc /\ wg' = wg
    /\ \A w \in Workers :
         /\ outClosed[w] => outClosed'[w] /\ wPc'[w] = "done"
         /\ ~outClosed[w] /\ outClosed'[w] => wPc[w] # "done" /\ wPc'[w] = "done"
         /\ wPc[w] # "done" /\ wPc'[w] = "done" => ~outClosed[w] /\ outClosed'[w]

\* C20: no send on a closed channel and no second close: each worker's out
\* is closed once, by that worker as it returns, and nothing is sent on it
\* afterwards; ch is closed once, after gen's last send; merge's out is
\* closed once, after every forwarder has finished.
C20_ChannelDiscipline ==
    /\ []ClosedChannelsHaveNoSender
    /\ [][ClosedByOwnerOnce]_vars

\* Two workers, both resources delivered, all four channels closed.
C20_Witness ==
    /\ concurrency = 2
    /\ BagCardinality(received) = 2
    /\ chClosed
    /\ \A w \in Workers : outClosed[w]
    /\ mergedClosed

====
